---- MODULE Spec2Model ----
(***************************************************************************)
(* The WebRTC signaling server of backend/internal/.../websocket           *)
(* (SignalingServer, Room, Client, Message), modelled as the goroutines    *)
(* the code starts: the control loop Run, one HandleWebSocket call per     *)
(* connection, and a readPump and a writePump per connection.              *)
(*                                                                         *)
(* Two specifications are given.                                           *)
(*   Spec / FairSpec: the server as main.go starts it.  s.broadcast is     *)
(*     unbuffered and Run is its only receiver, so a send on s.broadcast   *)
(*     made by the Run goroutine itself (registerClient, unregisterClient) *)
(*     has no receiver: no action completes it.                            *)
(*   SpecBuffered: the same code with room in s.broadcast for              *)
(*     BroadcastCap pending messages, so that those sends complete and     *)
(*     Run's broadcast arm later hands the messages to broadcastToRoom.    *)
(*     It is the setting in which the handlers after the first register    *)
(*     can be exercised at all.                                            *)
(*   SpecRelay: SpecBuffered taken up at a state it reaches, two           *)
(*     participants in one room with nothing pending, and followed while   *)
(*     no further connection arrives and the browsers send RelayFrames     *)
(*     frames.                                                             *)
(*                                                                         *)
(* The Todo use case (TodoUsecase over MockTodoRepository) is a second,    *)
(* independent component; SpecTodo follows its calls.                      *)
(***************************************************************************)
EXTENDS Integers, Sequences, FiniteSets, TLC

\* ---------------------------------------------------------------- bounds
MaxConns == 3
MaxFrames == 1
MaxCloses == 1
MailboxCap == 2
BroadcastCap == 1
RelayFrames == 2
MaxTodos == 2

Conns == 1..MaxConns
NoConn == 0
RoomIDs == {"r1", "r2"}
ClientIDs == {"alice", "bob", "carol"}

\* The (room, identity) pairs the HTTP layer hands to HandleWebSocket for the
\* c-th connection.  Up to renaming, the first connection is alice in r1 and
\* the second shares its room; the third is a known identity in either room
\* or a third identity in r1.
Seats(c) ==
    IF c = 1 THEN {<<"r1", "alice">>}
    ELSE IF c = 2 THEN {<<"r1", "alice">>, <<"r1", "bob">>}
    ELSE (RoomIDs \X {"alice", "bob"}) \cup {<<"r1", "carol">>}

\* ------------------------------------------------------- message schema
DirectedTypes == {"offer", "answer", "ice-candidate"}

\* A payload is a JSON value (val) in some encoding: compact is FALSE when
\* the bytes carry insignificant whitespace or unescaped <, >, &.
Payloads == {[val |-> "X", compact |-> FALSE]}
NoData == [val |-> "", compact |-> TRUE]
InvalidData == [val |-> "invalid", compact |-> FALSE]

\* The frames a browser may put on the wire.  "garbage" is a frame that is
\* not a JSON object; "join" stands for every kind handleMessage does not
\* know.  from is whatever the client chose to write.
Frames ==
    [type : {"offer"}, from : ClientIDs,
     to : ClientIDs \cup {""}, data : Payloads]
    \cup [type : {"leave", "join", "garbage"}, from : {"alice"},
          to : {""}, data : {NoData}]

\* The bytes json.Marshal returns on error (the code drops the error).
NilBytes == [type |-> "nil", from |-> "", to |-> "", data |-> NoData,
             src |-> NoConn, spoofed |-> FALSE, seq |-> 0, late |-> FALSE]

Digits == <<"0", "1", "2", "3", "4", "5", "6", "7", "8", "9">>

\* string(rune(n)): the character with code point n, not the decimal
\* numeral of n.  Inside `{"participants_count": ...}` it is a JSON value
\* only when that character is a digit.
RuneData(n) ==
    IF n \in 48..57 THEN [val |-> Digits[n - 47], compact |-> TRUE]
    ELSE InvalidData

\* json.Marshal of a Message: a RawMessage field is validated and
\* compacted; invalid JSON in it makes Marshal fail.
Marshal(msg) ==
    IF msg.data = InvalidData THEN NilBytes
    ELSE [msg EXCEPT !.data = [@ EXCEPT !.compact = TRUE]]

\* ---------------------------------------------------------------- state
VARIABLES
    rooms,      \* s.rooms[r].Clients : ClientIDs -> connection (0: no entry)
    roomSet,    \* the keys of s.rooms
    hubPc,      \* where the Run goroutine is
    hubClient,  \* the *Client the handler was called with
    hubMsg,     \* the BroadcastMessage offered at `s.broadcast <-`
    broadcast,  \* messages held by s.broadcast
    hw,         \* HandleWebSocket, per connection
    ID,         \* Client.ID
    RoomID,     \* Client.RoomID
    Send,       \* Client.Send: the buffered messages
    closed,     \* Client.Send has been closed
    conn,       \* Client.Conn: "none", "open", "closed"
    rp,         \* readPump position
    rmsg,       \* the Message readPump is handling
    rtarget,    \* forwardMessage's targetClient
    stale,      \* forwardMessage holds a *Room no longer in s.rooms
    reads,      \* frames read so far, over all connections
    frameLimit, \* frames the browsers send in this run
    rpLast,     \* what the read pumps did with the last frame handled
    wire,       \* the relayed messages written to each connection, in order
    closes,     \* connections closed by their peer so far
    wp,         \* writePump position
    panicked,   \* the process died of a runtime panic
    hubLast,    \* what the control loop's last handler did
    live,       \* per room, the identities whose last handled event is a register
    Todos,      \* MockTodoRepository.Todos: id -> Todo (NoTodo: no entry)
    NextID,     \* MockTodoRepository.NextID
    todoLast    \* the last call of the Todo use case, the error it returned
                \* and, for an update that found its Todo, the fields supplied

vars == <<rooms, roomSet, hubPc, hubClient, hubMsg, broadcast, hw, ID, RoomID,
          Send, closed, conn, rp, rmsg, rtarget, stale, reads, closes, wp,
          panicked, hubLast, live, frameLimit, rpLast, wire, Todos, NextID,
          todoLast>>

hubVars == <<hubPc, hubClient, hubMsg, hubLast>>
tableVars == <<rooms, roomSet, live>>
pumpVars == <<rp, rmsg, rtarget, stale, reads, closes, wp>>
obsVars == <<rpLast, wire>>
todoVars == <<Todos, NextID, todoLast>>
signalVars == <<rooms, roomSet, hubPc, hubClient, hubMsg, broadcast, hw, ID,
                RoomID, Send, closed, conn, rp, rmsg, rtarget, stale, reads,
                closes, wp, panicked, hubLast, live, frameLimit, rpLast, wire>>
clientVars == <<ID, RoomID>>

NoMsg == [type |-> "", from |-> "", to |-> "", data |-> NoData,
          src |-> NoConn, spoofed |-> FALSE, seq |-> 0, late |-> FALSE]
NoOutcome == [c |-> NoConn, what |-> "none"]
NoBroadcast == [RoomID |-> "", Message |-> NoMsg, Exclude |-> ""]
NoClients == [i \in ClientIDs |-> NoConn]

\* The Todo entity without its timestamps; ID 0 is a Todo not yet saved.
UserIDs == {1, 2}
TodoIDs == 1..MaxTodos
NoTodo == [ID |-> 0, UserID |-> 0, Title |-> "", Description |-> "",
           Completed |-> FALSE]
NoCall == [op |-> "none", id |-> 0, userID |-> 0, err |-> "nil"]

Members(r) == {rooms[r][i] : i \in ClientIDs} \ {NoConn}
Count(r) == Cardinality({i \in ClientIDs : rooms[r][i] # NoConn})
Names(r) == {i \in ClientIDs : rooms[r][i] # NoConn}

Init ==
    /\ rooms = [r \in RoomIDs |-> NoClients]
    /\ roomSet = {}
    /\ hubPc = "select"
    /\ hubClient = NoConn
    /\ hubMsg = NoBroadcast
    /\ broadcast = <<>>
    /\ hw = [c \in Conns |-> "idle"]
    /\ ID = [c \in Conns |-> ""]
    /\ RoomID = [c \in Conns |-> ""]
    /\ Send = [c \in Conns |-> <<>>]
    /\ closed = [c \in Conns |-> FALSE]
    /\ conn = [c \in Conns |-> "none"]
    /\ rp = [c \in Conns |-> "off"]
    /\ rmsg = [c \in Conns |-> NoMsg]
    /\ rtarget = [c \in Conns |-> NoConn]
    /\ stale = [c \in Conns |-> FALSE]
    /\ reads = 0
    /\ closes = 0
    /\ wp = [c \in Conns |-> "off"]
    /\ panicked = "none"
    /\ hubLast = "none"
    /\ live = [r \in RoomIDs |-> {}]
    /\ frameLimit = MaxFrames
    /\ rpLast = NoOutcome
    /\ wire = [c \in Conns |-> <<>>]
    /\ Todos = [i \in TodoIDs |-> NoTodo]
    /\ NextID = 1
    /\ todoLast = NoCall

\* s.mu is write-locked by the handler the control loop is inside.
MuLocked == hubPc \in {"reg_send", "unreg_send"}

\* ------------------------------------------------------ HandleWebSocket
\* upgrader.Upgrade succeeds and the Client is built; the handler then
\* offers it on s.register.  (A failed upgrade returns without touching the
\* server.)  Connections are taken in order.
HandleWebSocket(c, roomID, clientID) ==
    /\ panicked = "none"
    /\ hw[c] = "idle"
    /\ <<roomID, clientID>> \in Seats(c)
    /\ \A d \in Conns : d < c => hw[d] # "idle"
    /\ hw' = [hw EXCEPT ![c] = "register_send"]
    /\ ID' = [ID EXCEPT ![c] = clientID]
    /\ RoomID' = [RoomID EXCEPT ![c] = roomID]
    /\ conn' = [conn EXCEPT ![c] = "open"]
    /\ UNCHANGED <<tableVars, hubVars, broadcast, Send, closed, pumpVars,
                   panicked>>
    /\ UNCHANGED <<frameLimit, todoVars, obsVars>>

\* The browser goes away or the network drops.
PeerClose(c) ==
    /\ panicked = "none"
    /\ conn[c] = "open"
    /\ closes < MaxCloses
    /\ closes' = closes + 1
    /\ conn' = [conn EXCEPT ![c] = "closed"]
    /\ UNCHANGED <<tableVars, hubVars, broadcast, hw, clientVars, Send, closed,
                   rp, rmsg, rtarget, stale, reads, wp, panicked>>
    /\ UNCHANGED <<frameLimit, todoVars, obsVars>>

\* ------------------------------------------------------------------ Run
\* case client := <-s.register: the rendezvous lets HandleWebSocket go on
\* to start the two pumps.
RunRegister(c) ==
    /\ panicked = "none"
    /\ hubPc = "select"
    /\ hw[c] = "register_send"
    /\ hubPc' = "registerClient"
    /\ hubClient' = c
    /\ hw' = [hw EXCEPT ![c] = "done"]
    /\ rp' = [rp EXCEPT ![c] = "read"]
    /\ wp' = [wp EXCEPT ![c] = "run"]
    /\ UNCHANGED <<tableVars, hubMsg, hubLast, broadcast, clientVars, Send,
                   closed, conn, rmsg, rtarget, stale, reads, closes, panicked>>
    /\ UNCHANGED <<frameLimit, todoVars, obsVars>>

JoinMsg(c, n) ==
    Marshal([type |-> "user-joined", from |-> ID[c], to |-> "",
             data |-> RuneData(n), src |-> c, spoofed |-> FALSE,
             seq |-> 0, late |-> FALSE])

\* A register that keeps the entry an identity already has.
AddEntry_keepFirst(clients, id, c) ==
    IF clients[id] # NoConn THEN clients ELSE [clients EXCEPT ![id] = c]

\* room.Clients[client.ID] = client
AddEntry(clients, id, c) == [clients EXCEPT ![id] = c]

\* len(room.Clients)
Size(clients) == Cardinality({i \in ClientIDs : clients[i] # NoConn})

\* A room that still holds what the room deleted before it held.
NewRoom_reused == [i \in ClientIDs |-> IF i = "alice" THEN 1 ELSE NoConn]

\* &Room{ID: client.RoomID, Clients: make(map[string]*Client)}
NewRoom == NoClients

\* registerClient up to its send on s.broadcast, under s.mu.
registerClient ==
    /\ panicked = "none"
    /\ hubPc = "registerClient"
    /\ LET c == hubClient
           r == RoomID[c]
           clients == IF r \in roomSet THEN rooms[r] ELSE NewRoom
           after == AddEntry(clients, ID[c], c)
           n == Size(after)
       IN /\ roomSet' = roomSet \cup {r}
          /\ rooms' = [rooms EXCEPT ![r] = after]
          /\ live' = [live EXCEPT ![r] = @ \cup {ID[c]}]
          /\ hubMsg' = [RoomID |-> r, Message |-> JoinMsg(c, n),
                        Exclude |-> ID[c]]
          /\ hubLast' = IF r \notin roomSet THEN "register_created"
                        ELSE IF rooms[r][ID[c]] # NoConn
                             THEN "register_overwrite"
                             ELSE "register"
    /\ hubPc' = "reg_send"
    /\ UNCHANGED <<hubClient, broadcast, hw, clientVars, Send, closed, conn,
                   pumpVars, panicked>>
    /\ UNCHANGED <<frameLimit, todoVars, obsVars>>

\* ------------------------------------------------------------- readPump
\* handleMessage without `msg.From = client.ID`: the client's from is kept.
handleMessage_trusting(c, f) ==
    [type |-> f.type, from |-> f.from, to |-> f.to, data |-> f.data,
     src |-> c, spoofed |-> (f.from # ID[c]), seq |-> 0, late |-> FALSE]

\* handleMessage: From is overwritten, then the switch on Type.
handleMessage(c, f) ==
    [type |-> f.type, from |-> ID[c], to |-> f.to, data |-> f.data,
     src |-> c, spoofed |-> (f.from # ID[c]), seq |-> 0, late |-> FALSE]

\* What readPump and handleMessage make of a frame: Unmarshal fails, or
\* the switch on Type and forwardMessage's test of To decide.
FrameKind(f) ==
    CASE f.type = "garbage" -> "unparsed"
      [] f.type \in DirectedTypes /\ f.to = "" -> "noto"
      [] f.type \in DirectedTypes /\ f.to # "" -> "forward"
      [] f.type = "leave" -> "leave"
      [] OTHER -> "unknown"

\* A read pump that ends on a frame it cannot use.
AfterFrame_strict(kind) ==
    CASE kind = "forward" -> "fwd_room"
      [] kind = "leave" -> "leave_send"
      [] kind = "noto" -> "read"
      [] OTHER -> "defer_send"

\* Where the read pump is once the frame has been looked at: in
\* forwardMessage, at the send on s.unregister, or back at ReadMessage.
AfterFrame(kind) ==
    CASE kind = "forward" -> "fwd_room"
      [] kind = "leave" -> "leave_send"
      [] OTHER -> "read"

\* One frame is read, unmarshalled and handled up to the first point where
\* handleMessage or forwardMessage touches shared state.  The message
\* is numbered (seq) and marked late when the connection's mailbox has
\* been closed by an unregister before the frame is read.
ReadFrame(c, f) ==
    /\ panicked = "none"
    /\ rp[c] = "read"
    /\ conn[c] = "open"
    /\ reads < frameLimit
    /\ reads' = reads + 1
    /\ rp' = [rp EXCEPT ![c] = AfterFrame(FrameKind(f))]
    /\ rmsg' = [rmsg EXCEPT ![c] =
                   IF FrameKind(f) = "forward"
                   THEN [handleMessage(c, f) EXCEPT !.seq = reads + 1,
                                                   !.late = closed[c]]
                   ELSE @]
    /\ rpLast' = [c |-> c, what |-> FrameKind(f)]
    /\ UNCHANGED <<tableVars, hubVars, broadcast, hw, clientVars, Send, closed,
                   conn, rtarget, stale, closes, wp, panicked, frameLimit, todoVars,
                   wire>>

\* ReadMessage fails on a closed connection; the deferred function then
\* offers the client on s.unregister.
ReadError(c) ==
    /\ panicked = "none"
    /\ rp[c] = "read"
    /\ conn[c] = "closed"
    /\ rp' = [rp EXCEPT ![c] = "defer_send"]
    /\ UNCHANGED <<tableVars, hubVars, broadcast, hw, clientVars, Send, closed,
                   conn, rmsg, rtarget, stale, reads, closes, wp, panicked>>
    /\ UNCHANGED <<frameLimit, todoVars, obsVars>>

\* forwardMessage, first critical section: room := s.rooms[client.RoomID]
\* under s.mu.RLock.
forwardGetRoom(c) ==
    /\ panicked = "none"
    /\ rp[c] = "fwd_room"
    /\ ~MuLocked
    /\ IF RoomID[c] \in roomSet
       THEN /\ rp' = [rp EXCEPT ![c] = "fwd_target"]
            /\ UNCHANGED rmsg
       ELSE /\ rp' = [rp EXCEPT ![c] = "read"]
            /\ rmsg' = [rmsg EXCEPT ![c] = NoMsg]
    /\ rpLast' = IF RoomID[c] \in roomSet THEN rpLast
                 ELSE [c |-> c, what |-> "noroom"]
    /\ UNCHANGED <<tableVars, hubVars, broadcast, hw, clientVars, Send, closed,
                   conn, rtarget, stale, reads, closes, wp, panicked,
                   frameLimit, todoVars, wire>>

\* forwardMessage, second critical section: room.Clients[msg.To] under
\* room.mu.RLock.  The *Room is the one fetched before: when it has been
\* deleted from s.rooms in between, its Clients map is empty.
\* A lookup that falls back on the other rooms when the sender's room has
\* no entry under msg.To.
LookupTarget_anyRoom(c) ==
    LET to == rmsg[c].to
        others == {r \in roomSet : rooms[r][to] # NoConn}
    IN IF rooms[RoomID[c]][to] # NoConn THEN rooms[RoomID[c]][to]
       ELSE IF others = {} THEN NoConn
       ELSE rooms[CHOOSE r \in others : TRUE][to]

\* A lookup that hands the message back to its sender when the room has no
\* entry under msg.To.
LookupTarget_echo(c) ==
    IF rooms[RoomID[c]][rmsg[c].to] # NoConn
    THEN rooms[RoomID[c]][rmsg[c].to]
    ELSE c

\* targetClient, ok := room.Clients[msg.To], in the sender's room.
LookupTarget(c) == rooms[RoomID[c]][rmsg[c].to]

forwardGetTarget(c) ==
    /\ panicked = "none"
    /\ rp[c] = "fwd_target"
    /\ LET t == IF stale[c] THEN NoConn ELSE LookupTarget(c)
       IN IF t # NoConn
          THEN /\ rp' = [rp EXCEPT ![c] = "fwd_send"]
               /\ rtarget' = [rtarget EXCEPT ![c] = t]
               /\ UNCHANGED <<rmsg, rpLast>>
          ELSE /\ rp' = [rp EXCEPT ![c] = "read"]
               /\ rmsg' = [rmsg EXCEPT ![c] = NoMsg]
               /\ rpLast' = [c |-> c, what |-> "notarget"]
               /\ UNCHANGED rtarget
    /\ stale' = [stale EXCEPT ![c] = FALSE]
    /\ UNCHANGED <<tableVars, hubVars, broadcast, hw, clientVars, Send, closed,
                   conn, reads, closes, wp, panicked, frameLimit, todoVars, wire>>

\* A mailbox that hands out the newest message first.
Enqueue_front(box, m) == <<m>> \o box

\* A buffered channel is a queue: a send puts the message behind those
\* already buffered.
Enqueue(box, m) == Append(box, m)

\* select { case ch <- m: default: } on a mailbox: a send on a closed
\* channel panics, a full buffer takes the default branch.
TrySend(t, m) ==
    IF closed[t] THEN [ok |-> FALSE, box |-> Send[t]]
    ELSE IF Len(Send[t]) < MailboxCap
         THEN [ok |-> TRUE, box |-> Enqueue(Send[t], m)]
         ELSE [ok |-> TRUE, box |-> Send[t]]

\* forwardMessage, the marshal and the non-blocking send, outside any lock.
forwardSend(c) ==
    /\ panicked = "none"
    /\ rp[c] = "fwd_send"
    /\ LET t == rtarget[c]
           res == TrySend(t, Marshal(rmsg[c]))
       IN /\ Send' = [Send EXCEPT ![t] = res.box]
          /\ panicked' = IF res.ok THEN "none" ELSE "send on closed channel"
          /\ rpLast' = [c |-> c,
                        what |-> IF ~res.ok THEN "closed"
                                 ELSE IF res.box = Send[t] THEN "full"
                                 ELSE "sent"]
    /\ rp' = [rp EXCEPT ![c] = "read"]
    /\ rmsg' = [rmsg EXCEPT ![c] = NoMsg]
    /\ rtarget' = [rtarget EXCEPT ![c] = NoConn]
    /\ UNCHANGED <<tableVars, hubVars, broadcast, hw, clientVars, closed, conn,
                   stale, reads, closes, wp, frameLimit, todoVars, wire>>

\* ------------------------------------------------------------ writePump
\* for message := range client.Send: one message is taken and written; a
\* failed write ends the pump, which closes the connection.
writePump(c) ==
    /\ panicked = "none"
    /\ wp[c] = "run"
    /\ Send[c] # <<>>
    /\ Send' = [Send EXCEPT ![c] = Tail(@)]
    /\ IF conn[c] = "open"
       THEN /\ wire' = IF Head(Send[c]).type \in DirectedTypes
                       THEN [wire EXCEPT ![c] = Append(@, Head(Send[c]))]
                       ELSE wire
            /\ UNCHANGED <<wp, conn>>
       ELSE /\ wp' = [wp EXCEPT ![c] = "exit"]
            /\ UNCHANGED <<conn, wire>>
    /\ UNCHANGED <<tableVars, hubVars, broadcast, hw, clientVars, closed, rp,
                   rmsg, rtarget, stale, reads, closes, panicked, frameLimit, todoVars,
                   rpLast>>

\* The range loop ends when the mailbox is closed and drained; the deferred
\* Conn.Close runs.
writePumpExit(c) ==
    /\ panicked = "none"
    /\ wp[c] = "run"
    /\ Send[c] = <<>>
    /\ closed[c]
    /\ wp' = [wp EXCEPT ![c] = "exit"]
    /\ conn' = [conn EXCEPT ![c] = "closed"]
    /\ UNCHANGED <<tableVars, hubVars, broadcast, hw, clientVars, Send, closed,
                   rp, rmsg, rtarget, stale, reads, closes, panicked>>
    /\ UNCHANGED <<frameLimit, todoVars, obsVars>>

\* -------------------------------------------- Run, beyond the first send
\* The send on s.broadcast at the end of registerClient completes; the
\* deferred s.mu.Unlock runs and Run is back at its select.
registerClientSent ==
    /\ panicked = "none"
    /\ hubPc = "reg_send"
    /\ Len(broadcast) < BroadcastCap
    /\ broadcast' = Append(broadcast, hubMsg)
    /\ hubMsg' = NoBroadcast
    /\ hubPc' = "select"
    /\ hubClient' = NoConn
    /\ UNCHANGED <<tableVars, hubLast, hw, clientVars, Send, closed, conn,
                   pumpVars, panicked>>
    /\ UNCHANGED <<frameLimit, todoVars, obsVars>>

\* case client := <-s.unregister: the sender is readPump, either inside
\* handleMessage ("leave") or in its deferred function, which goes on to
\* close the connection and return.
RunUnregister(c) ==
    /\ panicked = "none"
    /\ hubPc = "select"
    /\ rp[c] \in {"leave_send", "defer_send"}
    /\ hubPc' = "unregisterClient"
    /\ hubClient' = c
    /\ IF rp[c] = "leave_send"
       THEN rp' = [rp EXCEPT ![c] = "read"] /\ UNCHANGED conn
       ELSE /\ rp' = [rp EXCEPT ![c] = "exit"]
            /\ conn' = [conn EXCEPT ![c] = "closed"]
    /\ UNCHANGED <<tableVars, hubMsg, hubLast, broadcast, hw, clientVars, Send,
                   closed, rmsg, rtarget, stale, reads, closes, wp, panicked>>
    /\ UNCHANGED <<frameLimit, todoVars, obsVars>>

LeaveMsg(c, n) ==
    Marshal([type |-> "user-left", from |-> ID[c], to |-> "",
             data |-> RuneData(n), src |-> c, spoofed |-> FALSE,
             seq |-> 0, late |-> FALSE])

\* unregisterClient without the `if _, ok := room.Clients[client.ID]; ok`.
HasEntry_roomOnly(r, id) == r \in roomSet

\* room := s.rooms[client.RoomID] is not nil and room.Clients has an entry
\* under client.ID.
HasEntry(r, id) == r \in roomSet /\ rooms[r][id] # NoConn

\* unregisterClient without the delete.
RemoveEntry_keeps(clients, id) == clients

\* delete(room.Clients, client.ID)
RemoveEntry(clients, id) == [clients EXCEPT ![id] = NoConn]

\* unregisterClient without the deletion of the empty room.
RoomEmptied_never(n) == FALSE

\* if participantCount == 0
RoomEmptied(n) == n = 0

\* unregisterClient up to its send on s.broadcast (or to its return when
\* the room or the entry is missing), under s.mu.  The entry is looked up
\* by client.ID; close(client.Send) panics on a closed channel.
unregisterClient ==
    /\ panicked = "none"
    /\ hubPc = "unregisterClient"
    /\ LET c == hubClient
           r == RoomID[c]
       IN IF HasEntry(r, ID[c])
          THEN LET after == RemoveEntry(rooms[r], ID[c])
                   n == Size(after)
               IN /\ rooms' = [rooms EXCEPT ![r] = after]
                  /\ closed' = [closed EXCEPT ![c] = TRUE]
                  /\ IF closed[c]
                     THEN /\ panicked' = "close of closed channel"
                          /\ UNCHANGED <<hubPc, hubMsg, hubLast>>
                     ELSE /\ panicked' = "none"
                          /\ hubPc' = "unreg_send"
                          /\ hubMsg' = [RoomID |-> r,
                                        Message |-> LeaveMsg(c, n),
                                        Exclude |-> ""]
                          /\ hubLast' = "unregister"
                  /\ UNCHANGED hubClient
          ELSE /\ hubPc' = "select"
               /\ hubClient' = NoConn
               /\ hubLast' = "unregister_noop"
               /\ UNCHANGED <<rooms, closed, panicked, hubMsg>>
    /\ live' = [live EXCEPT ![RoomID[hubClient]] = @ \ {ID[hubClient]}]
    /\ UNCHANGED <<roomSet, broadcast, hw, clientVars, Send, conn, pumpVars>>
    /\ UNCHANGED <<frameLimit, todoVars, obsVars>>

\* The send on s.broadcast in unregisterClient completes; the room is
\* deleted when it has become empty, and every forwardMessage that fetched
\* it before now holds a stale *Room.
unregisterClientSent ==
    /\ panicked = "none"
    /\ hubPc = "unreg_send"
    /\ Len(broadcast) < BroadcastCap
    /\ broadcast' = Append(broadcast, hubMsg)
    /\ LET r == hubMsg.RoomID
       IN IF RoomEmptied(Count(r))
          THEN /\ roomSet' = roomSet \ {r}
               /\ stale' = [c \in Conns |->
                              stale[c] \/ (rp[c] = "fwd_target" /\ RoomID[c] = r)]
               /\ hubLast' = "unregister_deleted"
          ELSE UNCHANGED <<roomSet, stale, hubLast>>
    /\ hubMsg' = NoBroadcast
    /\ hubPc' = "select"
    /\ hubClient' = NoConn
    /\ UNCHANGED <<rooms, live, hw, clientVars, Send, closed, conn, rp, rmsg,
                   rtarget, reads, closes, wp, panicked>>
    /\ UNCHANGED <<frameLimit, todoVars, obsVars>>

\* A loop over the clients of every room of the table.
Recipients_allRooms(m) ==
    {c \in Conns : /\ \E r \in roomSet : c \in Members(r)
                   /\ ~(m.Exclude # "" /\ ID[c] = m.Exclude)}

\* for clientID, client := range room.Clients, without the Exclude entry.
Recipients(m) ==
    {c \in Conns : /\ m.RoomID \in roomSet
                   /\ c \in Members(m.RoomID)
                   /\ ~(m.Exclude # "" /\ ID[c] = m.Exclude)}

\* A loop that gives up at the first mailbox that is full.
BroadcastBoxes_stopAtFull(m) ==
    [c \in Conns |->
        IF /\ c \in Recipients(m)
           /\ \A d \in Recipients(m) : closed[d] \/ Len(Send[d]) < MailboxCap
        THEN TrySend(c, m.Message)
        ELSE [ok |-> TRUE, box |-> Send[c]]]

\* broadcastToRoom: every client of the room but Exclude gets a
\* non-blocking send.
BroadcastBoxes(m) ==
    [c \in Conns |->
        IF c \in Recipients(m)
        THEN TrySend(c, m.Message)
        ELSE [ok |-> TRUE, box |-> Send[c]]]

\* case message := <-s.broadcast, then broadcastToRoom(message).
broadcastToRoom ==
    /\ panicked = "none"
    /\ hubPc = "select"
    /\ broadcast # <<>>
    /\ LET m == Head(broadcast)
           res == BroadcastBoxes(m)
           skipped == {c \in Recipients(m) : res[c].box = Send[c]}
       IN /\ Send' = [c \in Conns |-> res[c].box]
          /\ panicked' = IF \A c \in Conns : res[c].ok THEN "none"
                         ELSE "send on closed channel"
          /\ hubLast' = IF skipped # {} /\ skipped # Recipients(m)
                        THEN "broadcast_skipped" ELSE "broadcast"
    /\ broadcast' = Tail(broadcast)
    /\ UNCHANGED <<tableVars, hubPc, hubClient, hubMsg, hw, clientVars, closed,
                   conn, pumpVars>>
    /\ UNCHANGED <<frameLimit, todoVars, obsVars>>

\* The server as built.  The arms of Run for s.unregister and s.broadcast,
\* and the steps of the pumps that follow a successful lookup or a closed
\* mailbox, are not listed: each needs Run back at its select after a first
\* register, which the send in registerClient rules out (NextBuffered with
\* BroadcastCap = 0 reaches exactly the states of Next).
Next ==
    \/ \E c \in Conns, r \in RoomIDs, i \in ClientIDs : HandleWebSocket(c, r, i)
    \/ \E c \in Conns : PeerClose(c)
    \/ \E c \in Conns : RunRegister(c)
    \/ registerClient
    \/ \E c \in Conns, f \in Frames : ReadFrame(c, f)
    \/ \E c \in Conns : ReadError(c)
    \/ \E c \in Conns : forwardGetRoom(c)

Spec == Init /\ [][Next]_vars


\* The server with room for BroadcastCap messages in s.broadcast.
NextBuffered ==
    \/ Next
    \/ registerClientSent
    \/ \E c \in Conns : RunUnregister(c)
    \/ unregisterClient
    \/ unregisterClientSent
    \/ broadcastToRoom
    \/ \E c \in Conns : forwardGetTarget(c)
    \/ \E c \in Conns : forwardSend(c)
    \/ \E c \in Conns : writePump(c)
    \/ \E c \in Conns : writePumpExit(c)

SpecBuffered == Init /\ [][NextBuffered]_vars

\* alice and bob are registered in r1, every notification has been handed
\* out and written, and the pumps wait for frames and messages.
RelayStart ==
    /\ rooms = [r \in RoomIDs |->
                  IF r = "r1"
                  THEN [i \in ClientIDs |->
                          IF i = "alice" THEN 1 ELSE IF i = "bob" THEN 2
                          ELSE NoConn]
                  ELSE NoClients]
    /\ roomSet = {"r1"}
    /\ live = [r \in RoomIDs |-> IF r = "r1" THEN {"alice", "bob"} ELSE {}]
    /\ hubPc = "select"
    /\ hubClient = NoConn
    /\ hubMsg = NoBroadcast
    /\ hubLast = "broadcast"
    /\ broadcast = <<>>
    /\ hw = [c \in Conns |-> IF c \in {1, 2} THEN "done" ELSE "idle"]
    /\ ID = [c \in Conns |->
               IF c = 1 THEN "alice" ELSE IF c = 2 THEN "bob" ELSE ""]
    /\ RoomID = [c \in Conns |-> IF c \in {1, 2} THEN "r1" ELSE ""]
    /\ Send = [c \in Conns |-> <<>>]
    /\ closed = [c \in Conns |-> FALSE]
    /\ conn = [c \in Conns |-> IF c \in {1, 2} THEN "open" ELSE "none"]
    /\ rp = [c \in Conns |-> IF c \in {1, 2} THEN "read" ELSE "off"]
    /\ rmsg = [c \in Conns |-> NoMsg]
    /\ rtarget = [c \in Conns |-> NoConn]
    /\ stale = [c \in Conns |-> FALSE]
    /\ reads = 0
    /\ closes = 0
    /\ wp = [c \in Conns |-> IF c \in {1, 2} THEN "run" ELSE "off"]
    /\ panicked = "none"
    /\ rpLast = NoOutcome
    /\ wire = [c \in Conns |-> <<>>]
    /\ Todos = [i \in TodoIDs |-> NoTodo]
    /\ NextID = 1
    /\ todoLast = NoCall

InitRelay == RelayStart /\ frameLimit = RelayFrames

\* The pumps and the unregister and broadcast arms of Run.
NextRelay ==
    \/ \E c \in Conns : PeerClose(c)
    \/ \E c \in Conns, f \in Frames : ReadFrame(c, f)
    \/ \E c \in Conns : ReadError(c)
    \/ \E c \in Conns : forwardGetRoom(c)
    \/ \E c \in Conns : forwardGetTarget(c)
    \/ \E c \in Conns : forwardSend(c)
    \/ \E c \in Conns : writePump(c)
    \/ \E c \in Conns : writePumpExit(c)
    \/ \E c \in Conns : RunUnregister(c)
    \/ unregisterClient
    \/ unregisterClientSent
    \/ broadcastToRoom

SpecRelay == InitRelay /\ [][NextRelay]_vars

\* The goroutines of the server are scheduled fairly; browsers need not act.
FairSpec ==
    /\ Spec
    /\ WF_vars(\E c \in Conns : RunRegister(c))
    /\ WF_vars(registerClient)
    /\ \A c \in Conns : WF_vars(ReadError(c)) /\ WF_vars(forwardGetRoom(c))

\* ------------------------------------------------------------ TodoUsecase
\* The arguments of the calls.  "" is the empty title and "long" a title of
\* more than 255 bytes; "nil" is a nil pointer of UpdateTodo; id 0 stands
\* for every id <= 0.
Titles == {"", "t1", "t2", "long"}
Descriptions == {"d1", "d2"}
NilArg == "nil"
CallIDs == 0..MaxTodos

\* Todo.Validate and Todo.UpdateTitle: the error for a title.
TitleError(title) ==
    IF title = "" THEN "ErrTitleRequired"
    ELSE IF title = "long" THEN "ErrTitleTooLong"
    ELSE "nil"

\* entity.NewTodo(userID, title, description)
NewTodo(userID, title, description) ==
    [ID |-> 0, UserID |-> userID, Title |-> title,
     Description |-> description, Completed |-> FALSE]

\* A lookup that does not compare the owner.
FindByIDAndUserID_anyUser(todos, id, userID) ==
    IF id \in DOMAIN todos /\ todos[id] # NoTodo
    THEN [todo |-> todos[id], err |-> "nil"]
    ELSE [todo |-> NoTodo, err |-> "ErrTodoNotFound"]

\* MockTodoRepository.FindByIDAndUserID
FindByIDAndUserID(todos, id, userID) ==
    IF id \in DOMAIN todos /\ todos[id] # NoTodo /\ todos[id].UserID = userID
    THEN [todo |-> todos[id], err |-> "nil"]
    ELSE [todo |-> NoTodo, err |-> "ErrTodoNotFound"]

\* MockTodoRepository.Save: a Todo without ID gets NextID.
Save(todos, nextID, todo) ==
    IF todo.ID = 0
    THEN [todos |-> [todos EXCEPT ![nextID] = [todo EXCEPT !.ID = nextID]],
          next |-> nextID + 1]
    ELSE [todos |-> [todos EXCEPT ![todo.ID] = todo], next |-> nextID]

\* MockTodoRepository.DeleteByIDAndUserID
DeleteByIDAndUserID(todos, id, userID) ==
    IF id \in DOMAIN todos /\ todos[id] # NoTodo /\ todos[id].UserID = userID
    THEN [todos |-> [todos EXCEPT ![id] = NoTodo], err |-> "nil"]
    ELSE [todos |-> todos, err |-> "ErrTodoNotFound"]

\* TodoUsecase.CreateTodo
CreateTodo(userID, title, description) ==
    /\ NextID <= MaxTodos
    /\ LET todo == NewTodo(userID, title, description)
           err == TitleError(todo.Title)
           saved == Save(Todos, NextID, todo)
       IN /\ Todos' = IF err = "nil" THEN saved.todos ELSE Todos
          /\ NextID' = IF err = "nil" THEN saved.next ELSE NextID
          /\ todoLast' = [op |-> "create",
                          id |-> IF err = "nil" THEN NextID ELSE 0,
                          userID |-> userID, err |-> err]
    /\ UNCHANGED signalVars

\* TodoUsecase.GetTodoByID
GetTodoByID(id, userID) ==
    /\ LET err == IF id <= 0 THEN "ErrTodoNotFound"
                  ELSE FindByIDAndUserID(Todos, id, userID).err
       IN todoLast' = [op |-> "get", id |-> id, userID |-> userID,
                       err |-> err]
    /\ UNCHANGED <<Todos, NextID, signalVars>>

\* An UpdateTitle that assigns before it validates.
UpdateTitle_assignFirst(todo, title) ==
    [todo |-> [todo EXCEPT !.Title = title], err |-> TitleError(title)]

\* Todo.UpdateTitle: the title is assigned only when it is valid.
UpdateTitle(todo, title) ==
    IF TitleError(title) # "nil"
    THEN [todo |-> todo, err |-> TitleError(title)]
    ELSE [todo |-> [todo EXCEPT !.Title = title], err |-> "nil"]

\* TodoUsecase.UpdateTodo: the Todo found is the object the repository
\* holds, changed in place field by field and then saved; an error of
\* UpdateTitle ends the call with the object as UpdateTitle left it.
UpdateTodo(id, userID, title, description, completed) ==
    /\ LET found == FindByIDAndUserID(Todos, id, userID)
           early == IF id <= 0 THEN "ErrTodoNotFound" ELSE found.err
           r1 == IF title # NilArg THEN UpdateTitle(found.todo, title)
                 ELSE [todo |-> found.todo, err |-> "nil"]
           t2 == IF description # NilArg
                 THEN [r1.todo EXCEPT !.Description = description]
                 ELSE r1.todo
           t3 == IF completed # NilArg
                 THEN [t2 EXCEPT !.Completed = (completed = "true")] ELSE t2
           err == IF early # "nil" THEN early ELSE r1.err
       IN /\ Todos' = IF early # "nil" THEN Todos
                      ELSE IF r1.err # "nil"
                           THEN [Todos EXCEPT ![id] = r1.todo]
                           ELSE Save(Todos, NextID, t3).todos
          /\ todoLast' = IF early # "nil"
                         THEN [op |-> "update", id |-> id, userID |-> userID,
                               err |-> err]
                         ELSE [op |-> "update", id |-> id, userID |-> userID,
                               err |-> err, title |-> title,
                               description |-> description,
                               completed |-> completed]
    /\ UNCHANGED <<NextID, signalVars>>

\* TodoUsecase.DeleteTodo
DeleteTodo(id, userID) ==
    /\ LET found == FindByIDAndUserID(Todos, id, userID)
           deleted == DeleteByIDAndUserID(Todos, id, userID)
           err == IF id <= 0 THEN "ErrTodoNotFound"
                  ELSE IF found.err # "nil" THEN found.err
                  ELSE deleted.err
       IN /\ Todos' = IF id > 0 /\ found.err = "nil" THEN deleted.todos
                      ELSE Todos
          /\ todoLast' = [op |-> "delete", id |-> id, userID |-> userID,
                          err |-> err]
    /\ UNCHANGED <<NextID, signalVars>>

NextTodo ==
    \/ \E u \in UserIDs, t \in Titles, d \in Descriptions : CreateTodo(u, t, d)
    \/ \E i \in CallIDs, u \in UserIDs : GetTodoByID(i, u)
    \/ \E i \in CallIDs, u \in UserIDs, t \in Titles \cup {NilArg},
          d \in Descriptions \cup {NilArg}, b \in {"true", "false", NilArg} :
          UpdateTodo(i, u, t, d, b)
    \/ \E i \in CallIDs, u \in UserIDs : DeleteTodo(i, u)

SpecTodo == Init /\ [][NextTodo]_vars

\* ================================================================ claims
IsDirected(m) == m.type \in DirectedTypes
Registered(c) ==
    /\ hw[c] = "done"
    /\ RoomID[c] \in roomSet
    /\ rooms[RoomID[c]][ID[c]] = c
MemberNames(r) == IF r \in roomSet THEN Names(r) ELSE {}

\* C1: the control loop never blocks forever inside a handler: whenever Run
\* has left its select it comes back to it, and every client offered on
\* s.register is eventually received.
C1_HubReturns ==
    /\ (hubPc # "select") ~> (hubPc = "select")
    /\ \A c \in Conns : (hw[c] = "register_send") ~> (hw[c] = "done")

\* C2: when a is a member of a room and b, under another identity, asks to
\* register into that room, a's mailbox eventually holds a user-joined
\* message from b and the room's membership is exactly the two of them.
C2_JoinNotified ==
    \A a, b \in Conns :
        (/\ a # b
         /\ Registered(a)
         /\ hw[b] = "register_send"
         /\ RoomID[b] = RoomID[a]
         /\ ID[b] # ID[a])
        ~> (/\ \E k \in DOMAIN Send[a] :
                  Send[a][k].type = "user-joined" /\ Send[a][k].from = ID[b]
            /\ \A k \in DOMAIN Send[b] :
                  ~(Send[b][k].type = "user-joined" /\ Send[b][k].from = ID[b])
            /\ MemberNames(RoomID[a]) = {ID[a], ID[b]})

\* C3: no message is ever sent on a mailbox that has been closed.
C3_NoSendAfterClose == panicked # "send on closed channel"

\* C4: however often unregister is requested for a connection, its mailbox
\* is closed once: the control loop never closes a closed mailbox.
C4_ClosedOnce == panicked # "close of closed channel"

C6_NoEmptyRoom ==
    (panicked = "none" /\ ~MuLocked) => \A r \in roomSet : Names(r) # {}

C6_Witness ==
    /\ hubPc = "select"
    /\ hubLast = "unregister_deleted"
    /\ roomSet = {}

\* C7: unregisterClient for a client whose room is missing, or whose room
\* has no entry under its identity, changes neither the table nor any
\* mailbox, offers no notification, does not panic and returns.
C7_UnregisterAbsentNoop ==
    [][(/\ hubPc = "unregisterClient"
        /\ hubPc' # "unregisterClient"
        /\ ~(/\ RoomID[hubClient] \in roomSet
             /\ rooms[RoomID[hubClient]][ID[hubClient]] # NoConn))
       => (/\ UNCHANGED <<rooms, roomSet, Send, closed, broadcast, hubMsg>>
           /\ hubPc' = "select"
           /\ panicked' = "none")]_vars

C7_Witness == hubLast = "unregister_noop"

\* C8: every relayed message carries as from the identity of the connection
\* it arrived on, whatever from the client wrote.
C8_FromIsServerIdentity ==
    /\ \A t \in Conns : \A k \in DOMAIN Send[t] :
          IsDirected(Send[t][k]) => Send[t][k].from = ID[Send[t][k].src]
    /\ \A c \in Conns : IsDirected(rmsg[c]) => rmsg[c].from = ID[c]

C8_Witness ==
    \E t \in Conns : \E k \in DOMAIN Send[t] :
        IsDirected(Send[t][k]) /\ Send[t][k].spoofed

\* C9: a directed message from a member whose recipient was found in the
\* sender's room, and whose mailbox has room, is appended to that mailbox
\* with type, to and the data value as sent and from the sender; no other
\* mailbox changes.
C9_DirectedDelivered ==
    [][\A c \in Conns :
         (/\ rp[c] = "fwd_send"
          /\ rp'[c] # "fwd_send"
          /\ Registered(c)
          /\ rtarget[c] # c
          /\ Len(Send[rtarget[c]]) < MailboxCap)
         => LET t == rtarget[c]
                m == Send'[t][Len(Send'[t])]
            IN /\ Len(Send'[t]) = Len(Send[t]) + 1
               /\ SubSeq(Send'[t], 1, Len(Send[t])) = Send[t]
               /\ m.type = rmsg[c].type
               /\ m.to = rmsg[c].to
               /\ m.from = ID[c]
               /\ m.data.val = rmsg[c].data.val
               /\ \A d \in Conns \ {t} : Send'[d] = Send[d]]_vars

\* C10: a directed message sits only in mailboxes of connections of the
\* sending connection's room, under the identity it names.
C10_SameRoomOnly ==
    \A t \in Conns : \A k \in DOMAIN Send[t] :
        IsDirected(Send[t][k]) =>
            /\ RoomID[Send[t][k].src] = RoomID[t]
            /\ Send[t][k].to = ID[t]

C10_Witness ==
    \E t, u \in Conns : \E k \in DOMAIN Send[t] :
        /\ IsDirected(Send[t][k])
        /\ Registered(u)
        /\ ID[u] = Send[t][k].to
        /\ RoomID[u] # RoomID[t]

\* C11: when a registered connection asks to be unregistered, by its leave
\* message or after a read error, its identity eventually leaves the room's
\* membership and every remaining member's mailbox holds a user-left
\* message from it; no leave message is ever relayed.
C11_LeaveNotified ==
    /\ \A c \in Conns :
          (Registered(c) /\ rp[c] \in {"leave_send", "defer_send"})
          ~> (/\ ID[c] \notin MemberNames(RoomID[c])
              /\ \A a \in Conns :
                    (Registered(a) /\ RoomID[a] = RoomID[c]) =>
                        \E k \in DOMAIN Send[a] :
                            /\ Send[a][k].type = "user-left"
                            /\ Send[a][k].from = ID[c])
    /\ [](\A t \in Conns : \A k \in DOMAIN Send[t] :
              Send[t][k].type # "leave")

\* C12: a broadcast skips exactly the recipients whose mailbox is full: each
\* member of the room other than the excluded identity whose mailbox has
\* room gets the message appended, every other mailbox is left as it is,
\* and the control loop is back at its select without a panic.
C12_FullMailboxSkipped ==
    [][(broadcast # <<>> /\ broadcast' = Tail(broadcast))
       => LET m == Head(broadcast)
          IN /\ hubPc' = "select"
             /\ panicked' = "none"
             /\ \A c \in Conns :
                   IF /\ m.RoomID \in roomSet
                      /\ \E i \in ClientIDs \ {m.Exclude} :
                            rooms[m.RoomID][i] = c
                      /\ Len(Send[c]) < MailboxCap
                   THEN Send'[c] = Append(Send[c], m.Message)
                   ELSE Send'[c] = Send[c]]_vars

C12_Witness ==
    /\ hubLast = "broadcast_skipped"
    /\ \E c \in Conns : Registered(c) /\ Len(Send[c]) = MailboxCap

\* C13: when the last member of a room is unregistered the room leaves the
\* table, and a register into a room that is not in the table puts it back
\* with the registering connection as its only member and that
\* connection's mailbox empty.
C13_RoomRecreatedFresh ==
    [][/\ (/\ hubPc = "unreg_send"
           /\ hubPc' = "select"
           /\ \A i \in ClientIDs : rooms[hubMsg.RoomID][i] = NoConn)
          => hubMsg.RoomID \notin roomSet'
       /\ (/\ hubPc = "registerClient"
           /\ hubPc' # "registerClient"
           /\ RoomID[hubClient] \notin roomSet)
          => /\ RoomID[hubClient] \in roomSet'
             /\ \A i \in ClientIDs :
                   rooms'[RoomID[hubClient]][i] =
                       IF i = ID[hubClient] THEN hubClient ELSE NoConn
             /\ Send'[hubClient] = <<>>]_vars

C13_Witness ==
    /\ hubPc = "reg_send"
    /\ hubLast = "register_created"
    /\ \E d \in Conns \ {hubClient} :
          closed[d] /\ RoomID[d] = RoomID[hubClient]

\* C14: a directed frame without a recipient, a directed message whose
\* sender's room is not in the table, and one whose recipient is not a
\* member of the sender's room are dropped: the read pump is back at its
\* read, and no mailbox, membership, connection or notification changes.
C14_AbsentRecipientDropped ==
    [][\A c \in Conns :
         LET dropped ==
                 /\ rp'[c] = "read"
                 /\ panicked' = "none"
                 /\ UNCHANGED <<Send, rooms, roomSet, closed, conn, broadcast,
                                hubMsg, wire>>
         IN /\ (/\ reads' = reads + 1
                /\ rpLast'.c = c
                /\ rpLast'.what = "noto") => dropped
            /\ (/\ rp[c] = "fwd_room"
                /\ rp'[c] # "fwd_room"
                /\ RoomID[c] \notin roomSet) => dropped
            /\ (/\ rp[c] = "fwd_target"
                /\ rp'[c] # "fwd_target"
                /\ rmsg[c].to \notin MemberNames(RoomID[c])) => dropped]_vars

C14_Witness ==
    /\ rpLast.what = "notarget"
    /\ Registered(rpLast.c)
    /\ \E a \in Conns \ {rpLast.c} :
          Registered(a) /\ RoomID[a] = RoomID[rpLast.c]
    /\ conn[rpLast.c] = "open"
    /\ rp[rpLast.c] = "read"

\* C15: on every connection, the relayed messages written to the wire
\* followed by those still in the mailbox keep, for each sender, the order
\* in which the sender's frames were read.
Relayed(t) == wire[t] \o SelectSeq(Send[t], IsDirected)

C15_PairwiseFifo ==
    \A t \in Conns : \A i, j \in DOMAIN Relayed(t) :
        (i < j /\ Relayed(t)[i].src = Relayed(t)[j].src)
            => Relayed(t)[i].seq < Relayed(t)[j].seq

C15_Witness ==
    \E t \in Conns :
        /\ Len(wire[t]) = 2
        /\ wire[t][1].src = wire[t][2].src
        /\ wire[t][1].seq < wire[t][2].seq

\* C16: the events of a room reach its members in the order in which the
\* control loop was given them: no mailbox holds a message relayed for a
\* connection while the control loop, which received that connection's
\* register before, has yet to queue the user-joined message for it.
C16_HubOrder ==
    \A t \in Conns : \A k \in DOMAIN Send[t] :
        IsDirected(Send[t][k]) =>
            ~(/\ hubPc \in {"registerClient", "reg_send"}
              /\ hubClient = Send[t][k].src)

\* C17: a register under an identity the room already has an entry for is
\* carried out: afterwards the entry of that identity is the registering
\* connection, every other entry is as before, the number of entries is the
\* same, and the control loop goes on to announce the join.
C17_RegisterOverwrites ==
    [][(/\ hubPc = "registerClient"
        /\ hubPc' # "registerClient"
        /\ RoomID[hubClient] \in roomSet
        /\ rooms[RoomID[hubClient]][ID[hubClient]] # NoConn)
       => LET r == RoomID[hubClient]
          IN /\ hubPc' = "reg_send"
             /\ panicked' = "none"
             /\ r \in roomSet'
             /\ rooms'[r][ID[hubClient]] = hubClient
             /\ \A i \in ClientIDs \ {ID[hubClient]} :
                   rooms'[r][i] = rooms[r][i]
             /\ Cardinality({i \in ClientIDs : rooms'[r][i] # NoConn})
                  = Cardinality({i \in ClientIDs : rooms[r][i] # NoConn})]_vars

C17_Witness ==
    /\ hubPc = "reg_send"
    /\ hubLast = "register_overwrite"
    /\ rooms[RoomID[hubClient]][ID[hubClient]] = hubClient
    /\ \E d \in Conns \ {hubClient} :
          /\ ID[d] = ID[hubClient]
          /\ RoomID[d] = RoomID[hubClient]
          /\ ~closed[d]

\* C18: the notification the control loop offers at the end of a register
\* or unregister is a user-joined or user-left message whose data holds,
\* as a number, the size of the room's membership map at that step.
C18_CountInData ==
    hubPc \in {"reg_send", "unreg_send"} =>
        /\ hubMsg.Message.type \in {"user-joined", "user-left"}
        /\ hubMsg.Message.data.val = Digits[Count(hubMsg.RoomID) + 1]

C20_NonOwnerRefused ==
    [][(/\ todoLast'.op \in {"get", "update", "delete"}
        /\ todoLast'.id \in TodoIDs
        /\ Todos[todoLast'.id] # NoTodo
        /\ Todos[todoLast'.id].UserID # todoLast'.userID)
       => /\ todoLast'.err # "nil"
          /\ todoLast'.op = "get" => todoLast'.err = "ErrTodoNotFound"
          /\ Todos' = Todos
          /\ NextID' = NextID]_vars

C20_Witness ==
    /\ todoLast.op = "delete"
    /\ todoLast.err = "ErrTodoNotFound"
    /\ todoLast.id \in TodoIDs
    /\ Todos[todoLast.id] # NoTodo
    /\ Todos[todoLast.id].UserID # todoLast.userID
    /\ Todos[todoLast.id].Completed
    /\ \E i \in TodoIDs : Todos[i] = NoTodo /\ i < NextID

C22_DispatchSerialized ==
    [][\A c \in Conns :
         (rp[c] \in {"fwd_target", "fwd_send"} /\ rp'[c] = rp[c])
            => UNCHANGED <<rooms, roomSet, closed>>]_vars

\* C23: a read pump whose read fails on a closed connection hands its
\* client to the control loop's unregister and terminates, with the
\* connection closed.
C23_ReadPumpExits ==
    \A c \in Conns :
        (rp[c] = "read" /\ conn[c] = "closed")
            ~> (rp[c] = "exit" /\ conn[c] = "closed")

\* C24: a connection's read pump handles no inbound frame while the control
\* loop, having received the client on s.register, has yet to put it into
\* its room's membership map.
C24_OpenAfterRegister ==
    [][\A c \in Conns :
         (reads' = reads + 1 /\ rpLast'.c = c)
            => ~(hubPc = "registerClient" /\ hubClient = c)]_vars

\* C25: a register, an unregister, the queueing and the handing out of a
\* notification, and the send of a directed message, each made for one
\* room, leave every other room as it is: its presence in the table, its
\* membership map, and the mailbox of each of its members.
SameRoom(r) ==
    /\ rooms'[r] = rooms[r]
    /\ (r \in roomSet') = (r \in roomSet)
    /\ \A d \in Conns :
          (r \in roomSet /\ \E i \in ClientIDs : rooms[r][i] = d)
             => (Send'[d] = Send[d] /\ closed'[d] = closed[d])

C25_RoomsIndependent ==
    [][/\ (hubPc \in {"registerClient", "unregisterClient"} /\ hubPc' # hubPc)
          => \A r \in RoomIDs \ {RoomID[hubClient]} : SameRoom(r)
       /\ (hubPc \in {"reg_send", "unreg_send"} /\ hubPc' # hubPc)
          => \A r \in RoomIDs \ {hubMsg.RoomID} : SameRoom(r)
       /\ (hubPc = "select" /\ broadcast # <<>> /\ broadcast' = Tail(broadcast))
          => \A r \in RoomIDs \ {Head(broadcast).RoomID} : SameRoom(r)
       /\ \A c \in Conns :
             (rp[c] = "fwd_send" /\ rp'[c] # "fwd_send")
                => \A r \in RoomIDs \ {RoomID[c]} : SameRoom(r)]_vars

C25_Witness ==
    /\ rpLast.what = "sent"
    /\ hubLast = "broadcast"
    /\ \E d \in Conns :
          /\ Registered(d)
          /\ RoomID[d] # RoomID[rpLast.c]
          /\ Send[d] = <<>>
    /\ \E t \in Conns :
          /\ Registered(t)
          /\ RoomID[t] = RoomID[rpLast.c]
          /\ \E k \in DOMAIN Send[t] : Send[t][k].src = rpLast.c

\* C26: unregisterClient called for a connection removes no entry that
\* holds another connection and closes no other connection's mailbox.
C26_UnregisterOwnEntryOnly ==
    [][(hubPc = "unregisterClient" /\ hubPc' # hubPc)
       => /\ \A r \in RoomIDs : \A i \in ClientIDs :
                rooms[r][i] # hubClient => rooms'[r][i] = rooms[r][i]
          /\ \A d \in Conns \ {hubClient} : closed'[d] = closed[d]]_vars

\* C27: no mailbox ever holds a directed message of a connection that had
\* been unregistered, its mailbox closed, before it sent the message.
C27_NoDeliveryAfterLeave ==
    \A t \in Conns : \A k \in DOMAIN Send[t] :
        IsDirected(Send[t][k]) => ~Send[t][k].late

\* C28: once a connection has closed, its write pump eventually terminates.
C28_WritePumpExits ==
    \A c \in Conns : (wp[c] = "run" /\ conn[c] = "closed") ~> (wp[c] = "exit")

C30_JoinedStartsOffer ==
    [][(/\ hubPc = "select"
        /\ broadcast # <<>>
        /\ broadcast' = Tail(broadcast)
        /\ Head(broadcast).Exclude # "")
       => LET m == Head(broadcast)
          IN \A c \in Conns :
                (/\ m.RoomID \in roomSet
                 /\ \E i \in ClientIDs \ {m.Exclude} : rooms[m.RoomID][i] = c
                 /\ ~closed[c]
                 /\ Len(Send[c]) < MailboxCap)
                => /\ Len(Send'[c]) = Len(Send[c]) + 1
                   /\ Send'[c][Len(Send'[c])].type = "user-joined"
                   /\ Send'[c][Len(Send'[c])].from = m.Exclude]_vars

====
